---- MODULE Spec2Model ----
(***************************************************************************)
(* The employee directory service of src/main.py: POST /employee/          *)
(* (create_employee) and GET /employee/{alias} (get_employee) over the     *)
(* "employees" table.  Each request runs in its own thread with its own    *)
(* session (get_db); the table is the only shared state.                   *)
(*                                                                         *)
(* An optional text value is a sequence of length at most one: <<>> is an  *)
(* absent value (JSON field missing / Python None / SQL NULL) and <<v>> a  *)
(* present one.  An email is a sequence of characters so that the          *)
(* normalisation done by EmailStr is computed, not assumed.                *)
(***************************************************************************)
EXTENDS Integers, Sequences, FiniteSets, TLC

\* Number of requests the server handles at the same time.
MaxRequests == 2

Requests == 1..MaxRequests

None == <<>>
Some(v) == <<v>>

---------------------------------------------------------------------------
(* EmailStr validation (pydantic, over email_validator)                    *)

RECURSIVE lstrip(_)
lstrip(s) == IF s # <<>> /\ Head(s) = " " THEN lstrip(Tail(s)) ELSE s

RECURSIVE rstrip(_)
rstrip(s) ==
    IF s # <<>> /\ s[Len(s)] = " " THEN rstrip(SubSeq(s, 1, Len(s) - 1)) ELSE s

\* str.strip()
strip(s) == rstrip(lstrip(s))

\* str.lower() on one character of the alphabet the inputs are drawn from
lower(c) ==
    CASE c = "A" -> "a"
      [] c = "B" -> "b"
      [] c = "C" -> "c"
      [] c = "X" -> "x"
      [] OTHER -> c

AtPositions(s) == {i \in 1..Len(s) : s[i] = "@"}

\* The syntax rules of an address: one "@", a non-empty local part, a domain
\* made of non-empty labels separated by periods (at least one period), and no
\* blank inside.
IsEmailSyntax(s) ==
    /\ Cardinality(AtPositions(s)) = 1
    /\ \A i \in 1..Len(s) : s[i] # " "
    /\ LET at == CHOOSE i \in AtPositions(s) : TRUE
           dom == SubSeq(s, at + 1, Len(s))
       IN  /\ at > 1
           /\ Len(dom) >= 3
           /\ \E i \in 2..(Len(dom) - 1) : dom[i] = "."
           /\ dom[1] # "." /\ dom[Len(dom)] # "."
           /\ \A i \in 1..(Len(dom) - 1) : ~(dom[i] = "." /\ dom[i + 1] = ".")

RECURSIVE LowerSeq(_)
LowerSeq(s) == IF s = <<>> THEN <<>> ELSE <<lower(Head(s))>> \o LowerSeq(Tail(s))

\* The value EmailStr gives the model for an accepted address: blanks around
\* it removed, the local part kept as typed, the domain in lower case.
NormalizeEmail(s) ==
    LET e == strip(s)
        at == IF AtPositions(e) = {} THEN Len(e)
              ELSE CHOOSE i \in AtPositions(e) : \A j \in AtPositions(e) : i <= j
    IN  SubSeq(e, 1, at) \o LowerSeq(SubSeq(e, at + 1, Len(e)))

\* email: EmailStr -- None when the value is rejected
EmailStr(v) ==
    IF v # None /\ IsEmailSyntax(strip(v[1])) THEN Some(NormalizeEmail(v[1]))
    ELSE None

---------------------------------------------------------------------------
(* Request bodies and path parameters the clients send                     *)

E_ax == <<"a", "@", "x", ".", "c">>
E_aX == <<"a", "@", "X", ".", "c">>
E_bx == <<"b", "@", "x", ".", "c">>
E_sp == <<" ", "b", "@", "x", ".", "c">>
E_noAt == <<"a", "x", ".", "c">>
E_noDot == <<"a", "@", "x">>

PathKeys == {"al", "zz"}

Base ==
    [name |-> Some("Ana"), last_name |-> Some("Diaz"), alias |-> None,
     email |-> Some(E_ax), phone_number |-> None, employee_number |-> Some("E1")]

\* Bodies with every required field filled in: they share emails, employee
\* numbers and aliases with one another in every combination.
WellFormedBodies ==
    {Base,
     [Base EXCEPT !.alias = Some("al"), !.employee_number = Some("E2")],
     [Base EXCEPT !.alias = Some("al"), !.email = Some(E_bx)],
     [Base EXCEPT !.alias = Some("al"), !.email = Some(E_sp),
                  !.phone_number = Some("555"), !.employee_number = Some("E2")],
     [Base EXCEPT !.email = Some(E_aX), !.employee_number = Some("E2")]}

\* Bodies with one field missing, empty or malformed
OddBodies ==
    {[Base EXCEPT !.name = None], [Base EXCEPT !.name = Some("")],
     [Base EXCEPT !.last_name = None], [Base EXCEPT !.last_name = Some("")],
     [Base EXCEPT !.employee_number = None],
     [Base EXCEPT !.employee_number = Some("")],
     [Base EXCEPT !.email = None], [Base EXCEPT !.email = Some(E_noAt)],
     [Base EXCEPT !.email = Some(E_noDot)]}

Bodies == WellFormedBodies \cup OddBodies

---------------------------------------------------------------------------
(* The pydantic models and the table                                       *)

\* Faulty variant: last_name declared with a default, so no longer required
EmployeeCreate_LastNameOptional(b) ==
    IF \/ b.name = None
       \/ b.employee_number = None
       \/ EmailStr(b.email) = None
    THEN None
    ELSE Some([b EXCEPT !.email = EmailStr(b.email)])

\* class EmployeeCreate: the validated model, or None when validation fails.
\* name, last_name and employee_number are `str` (any string, the empty one
\* included), email is EmailStr, alias and phone_number default to None.
EmployeeCreate(b) ==
    IF \/ b.name = None
       \/ b.last_name = None
       \/ b.employee_number = None
       \/ EmailStr(b.email) = None
    THEN None
    ELSE Some([b EXCEPT !.email = EmailStr(b.email)])

\* Faulty variant: the alias is not copied into the row
Employee_NoAlias(e) ==
    [name |-> e.name, last_name |-> e.last_name, alias |-> None,
     email |-> e.email, phone_number |-> e.phone_number,
     employee_number |-> e.employee_number]

\* Employee(**employee.dict()): the row to insert, its id not yet assigned
Employee(e) ==
    [name |-> e.name, last_name |-> e.last_name, alias |-> e.alias,
     email |-> e.email, phone_number |-> e.phone_number,
     employee_number |-> e.employee_number]

\* id = Column(Integer, primary_key=True): the table assigns the largest id
\* in use plus one
NextId(s) ==
    IF s = {} THEN 1
    ELSE 1 + (CHOOSE i \in {e.id : e \in s} : \A e \in s : e.id <= i)

\* The row as stored, and as db.refresh reads it back
Persisted(row, id) ==
    [id |-> id, name |-> row.name, last_name |-> row.last_name,
     alias |-> row.alias, email |-> row.email,
     phone_number |-> row.phone_number,
     employee_number |-> row.employee_number]

\* Faulty variants: unique=True left off both columns, off employee_number,
\* off email
IntegrityError_Never(s, row) == FALSE

IntegrityError_EmailOnly(s, row) == \E e \in s : e.email = row.email

IntegrityError_NumberOnly(s, row) ==
    \E e \in s : e.employee_number = row.employee_number

\* unique=True on email and on employee_number: the INSERT is refused when a
\* stored row has the same email or the same employee_number
IntegrityError(s, row) ==
    \E e \in s :
        \/ e.email = row.email
        \/ e.employee_number = row.employee_number

\* Faulty variant: the new row replaces the rows that have its alias
InsertReplacingAlias(s, row) ==
    {e \in s : e.alias = None \/ e.alias # row.alias} \cup {row}

\* db.add(new_employee); db.commit() when the INSERT is accepted
Insert(s, row) == s \cup {row}

\* Faulty variants: no filter on the query; the filter on the wrong column
FilterAll(s, k) == s

FilterByEmployeeNumber(s, k) == {e \in s : e.employee_number = Some(k)}

\* db.query(Employee).filter(Employee.alias == alias): a NULL alias matches
\* no value
Filter(s, k) == {e \in s : e.alias = Some(k)}

\* Faulty variant: db.close() after the yield without try/finally, skipped
\* when the handler raises
CloseUnlessRaised(status) == IF status = 200 THEN "closed" ELSE "open"

\* get_db: `finally: db.close()` runs however the request ended
SessionAfterRequest(status) == "closed"

---------------------------------------------------------------------------
(* State                                                                   *)

VARIABLES
    store,      \* the rows of table "employees"
    pc,         \* where each request thread is: "idle", "handler", "exit"
    request,    \* what each thread was sent
    session,    \* the thread's SessionLocal(): "open" or "closed"
    response,   \* what the handler returned or raised
    sent        \* the status of the answer an idle thread has just sent (0: none)

vars == <<store, pc, request, session, response, sent>>

NoRequest == [method |-> "", body |-> None, alias |-> None]
NoResponse == [status |-> 0, detail |-> "", employee |-> None]

Ok(row) == [status |-> 200, detail |-> "", employee |-> Some(row)]
HTTPException(status, detail) ==
    [status |-> status, detail |-> detail, employee |-> None]

Init ==
    /\ store = {}
    /\ pc = [r \in Requests |-> "idle"]
    /\ request = [r \in Requests |-> NoRequest]
    /\ session = [r \in Requests |-> "closed"]
    /\ response = [r \in Requests |-> NoResponse]
    /\ sent = [r \in Requests |-> 0]

\* POST /employee/ arrives: get_db opens the session, then the body is
\* validated; a rejected body is answered 422 without entering the handler.
ReceivePost(r, b) ==
    /\ pc[r] = "idle"
    /\ session' = [session EXCEPT ![r] = "open"]
    /\ request' = [request EXCEPT ![r] = [method |-> "POST", body |-> Some(b), alias |-> None]]
    /\ IF EmployeeCreate(b) = None
       THEN /\ pc' = [pc EXCEPT ![r] = "exit"]
            /\ response' = [response EXCEPT ![r] = HTTPException(422, "validation error")]
       ELSE /\ pc' = [pc EXCEPT ![r] = "handler"]
            /\ UNCHANGED response
    /\ sent' = [sent EXCEPT ![r] = 0]
    /\ UNCHANGED store

\* create_employee: add, commit and refresh, or rollback and raise 400
CreateEmployee(r) ==
    /\ pc[r] = "handler"
    /\ request[r].method = "POST"
    /\ LET employee == EmployeeCreate(request[r].body[1])[1]
           new_employee == Employee(employee)
       IN  IF IntegrityError(store, new_employee)
           THEN /\ UNCHANGED store
                /\ response' = [response EXCEPT ![r] = HTTPException(400, "Error: IntegrityError")]
           ELSE LET row == Persisted(new_employee, NextId(store))
                IN  /\ store' = Insert(store, row)
                    /\ response' = [response EXCEPT ![r] = Ok(row)]
    /\ pc' = [pc EXCEPT ![r] = "exit"]
    /\ UNCHANGED <<request, session, sent>>

\* GET /employee/{alias} arrives: get_db opens the session
ReceiveGet(r, k) ==
    /\ pc[r] = "idle"
    /\ session' = [session EXCEPT ![r] = "open"]
    /\ request' = [request EXCEPT ![r] = [method |-> "GET", body |-> None, alias |-> Some(k)]]
    /\ pc' = [pc EXCEPT ![r] = "handler"]
    /\ sent' = [sent EXCEPT ![r] = 0]
    /\ UNCHANGED <<store, response>>

\* get_employee: .first() of the filtered query (no ORDER BY: any matching
\* row), or 404
GetEmployee(r) ==
    /\ pc[r] = "handler"
    /\ request[r].method = "GET"
    /\ LET found == Filter(store, request[r].alias[1])
       IN  IF found = {}
           THEN response' = [response EXCEPT ![r] = HTTPException(404, "Employee not found")]
           ELSE \E employee \in found : response' = [response EXCEPT ![r] = Ok(employee)]
    /\ pc' = [pc EXCEPT ![r] = "exit"]
    /\ UNCHANGED <<store, request, session, sent>>

\* The answer is sent and get_db resumes after its yield
Finish(r) ==
    /\ pc[r] = "exit"
    /\ session' = [session EXCEPT ![r] = SessionAfterRequest(response[r].status)]
    /\ pc' = [pc EXCEPT ![r] = "idle"]
    /\ request' = [request EXCEPT ![r] = NoRequest]
    /\ response' = [response EXCEPT ![r] = NoResponse]
    /\ sent' = [sent EXCEPT ![r] = response[r].status]
    /\ UNCHANGED store

Next ==
    \E r \in Requests :
        \/ \E b \in Bodies : ReceivePost(r, b)
        \/ CreateEmployee(r)
        \/ \E k \in PathKeys : ReceiveGet(r, k)
        \/ GetEmployee(r)
        \/ Finish(r)

Spec == Init /\ [][Next]_vars

---------------------------------------------------------------------------
(* Vocabulary of the properties                                            *)

IsPost(r) == request[r].method = "POST"
IsGet(r) == request[r].method = "GET"
Body(r) == request[r].body[1]

\* The step in which thread r runs its handler
Handles(r) == pc[r] = "handler" /\ pc'[r] = "exit"

\* The step in which thread r takes a request
Receives(r) == pc[r] = "idle" /\ pc'[r] # "idle"

\* An input as section 4.1 of the specification wants it: name, last_name and
\* employee_number present and non-empty, email present and well-formed
IsValidInput(b) ==
    /\ b.name # None /\ b.name # Some("")
    /\ b.last_name # None /\ b.last_name # Some("")
    /\ b.employee_number # None /\ b.employee_number # Some("")
    /\ b.email # None /\ IsEmailSyntax(strip(b.email[1]))

\* An input with a required field missing or a malformed email
IsRejectedInput(b) ==
    \/ b.name = None
    \/ b.last_name = None
    \/ b.employee_number = None
    \/ b.email = None
    \/ ~IsEmailSyntax(strip(b.email[1]))

\* The row with the largest id: the one created last
Newest(s) == CHOOSE e \in s : \A o \in s : o.id <= e.id

SameFields(row, b, email) ==
    /\ row.name = b.name
    /\ row.last_name = b.last_name
    /\ row.alias = b.alias
    /\ row.email = email
    /\ row.phone_number = b.phone_number
    /\ row.employee_number = b.employee_number

\* Thread r's answer is 200 with a row that is new in store', has the fields
\* of body b (its email being `email`) and an id no row of store has
CreatedFrom(r, b, email) ==
    /\ response'[r].status = 200
    /\ LET row == response'[r].employee[1]
       IN  /\ row \notin store
           /\ store' = store \cup {row}
           /\ SameFields(row, b, email)
           /\ \A e \in store : e.id # row.id

---------------------------------------------------------------------------
(* C1 *)

\* C1: no two distinct stored records share an email, and no two share an
\* employee_number, in any state any sequence of requests leads to.
C1_UniqueKeys ==
    \A e1, e2 \in store :
        e1 # e2 => /\ e1.email # e2.email
                   /\ e1.employee_number # e2.employee_number

\* Two records are stored and a creation has just been refused.
C1_Witness ==
    /\ Cardinality(store) = 2
    /\ \E r \in Requests : pc[r] = "exit" /\ IsPost(r) /\ response[r].status = 400

---------------------------------------------------------------------------
(* C2 *)

\* C2 as stated: a valid input whose email and employee_number, as sent, occur
\* in no stored record is created, with exactly one new record whose fields
\* equal the input's and whose id is fresh.
C2_AsStated ==
    [][\A r \in Requests :
        (/\ Handles(r) /\ IsPost(r)
         /\ IsValidInput(Body(r))
         /\ \A e \in store : /\ e.email # Body(r).email
                             /\ e.employee_number # Body(r).employee_number)
        => CreatedFrom(r, Body(r), Body(r).email)]_vars

\* C2 amended: a valid input whose normalised email (blanks around it removed,
\* domain in lower case) and employee_number occur in no stored record is
\* created, with exactly one new record whose name, last_name, alias,
\* phone_number and employee_number equal the input's, whose email is the
\* normalised input email, and whose id is fresh.
C2_CreatedNormalised ==
    [][\A r \in Requests :
        (/\ Handles(r) /\ IsPost(r)
         /\ IsValidInput(Body(r))
         /\ \A e \in store : /\ e.email # Some(NormalizeEmail(Body(r).email[1]))
                             /\ e.employee_number # Body(r).employee_number)
        => CreatedFrom(r, Body(r), Some(NormalizeEmail(Body(r).email[1])))]_vars

\* A second record has just been created from an input with an alias and a
\* phone number, whose email was not sent in normal form.
C2_Witness ==
    \E r \in Requests :
        /\ pc[r] = "exit" /\ IsPost(r) /\ response[r].status = 200
        /\ IsValidInput(Body(r))
        /\ Body(r).alias # None /\ Body(r).phone_number # None
        /\ response[r].employee[1] \in store
        /\ response[r].employee[1].email # Body(r).email
        /\ Cardinality(store) = 2

---------------------------------------------------------------------------
(* C3 *)

\* C3: a creation whose email or employee_number equals that of a stored
\* record is answered 400, the record set is left as it was, and exactly one
\* record with that email / employee_number exists afterward.
C3_ConflictRefused ==
    [][\A r \in Requests :
        (Handles(r) /\ IsPost(r)) =>
            /\ (\E e \in store : e.email \in {Body(r).email, EmailStr(Body(r).email)})
                => /\ response'[r].status = 400
                   /\ response'[r].employee = None
                   /\ store' = store
                   /\ Cardinality({e \in store' : e.email = EmailStr(Body(r).email)}) = 1
            /\ (\E e \in store : e.employee_number = Body(r).employee_number)
                => /\ response'[r].status = 400
                   /\ response'[r].employee = None
                   /\ store' = store
                   /\ Cardinality({e \in store' :
                          e.employee_number = Body(r).employee_number}) = 1]_vars

\* A creation has just been refused for its employee_number alone: a stored
\* record has that number, none has its email.
C3_Witness ==
    \E r \in Requests :
        /\ pc[r] = "exit" /\ IsPost(r) /\ response[r].status = 400
        /\ \E e \in store : e.employee_number = Body(r).employee_number
        /\ \A e \in store : e.email # EmailStr(Body(r).email)

---------------------------------------------------------------------------
(* C4 *)

\* C4 as stated: a lookup by the alias of the record created last, with no
\* creation in between, returns that record, whatever else is stored.
C4_AsStated ==
    [][\A r \in Requests :
        (/\ Handles(r) /\ IsGet(r)
         /\ store # {}
         /\ Newest(store).alias = request[r].alias)
        => response'[r] = Ok(Newest(store))]_vars

\* C4 amended: a lookup by the alias of the record created last, with no
\* creation in between, returns that record (same id, same fields) provided
\* the record has an alias and no other stored record has the same alias.
C4_RoundTripUniqueAlias ==
    [][\A r \in Requests :
        (/\ Handles(r) /\ IsGet(r)
         /\ store # {}
         /\ Newest(store).alias = request[r].alias
         /\ \A e \in store : e.alias = Newest(store).alias => e = Newest(store))
        => response'[r] = Ok(Newest(store))]_vars

\* A lookup has just returned the record created last, the second of two.
C4_Witness ==
    \E r \in Requests :
        /\ pc[r] = "exit" /\ IsGet(r)
        /\ Cardinality(store) = 2
        /\ response[r] = Ok(Newest(store))
        /\ Newest(store).alias = request[r].alias

---------------------------------------------------------------------------
(* C5 *)

\* Both threads hold a create request that passed validation and whose handler
\* has run, neither has finished: the two requests overlapped in time.
BothHandled(r1, r2) ==
    /\ r1 # r2
    /\ pc[r1] = "exit" /\ IsPost(r1) /\ response[r1].status # 422
    /\ pc[r2] = "exit" /\ IsPost(r2) /\ response[r2].status # 422

SharedEmail(r1, r2) == Body(r1).email = Body(r2).email
SharedNumber(r1, r2) == Body(r1).employee_number = Body(r2).employee_number

Successes(r1, r2) == {r \in {r1, r2} : response[r].status = 200}

---------------------------------------------------------------------------
(* C6 *)

\* C6: an input missing name, last_name, employee_number or email, or with a
\* malformed email, is answered 422 as soon as it is received, the step leaves
\* the record set as it was, and the request never reaches the handler.
C6_RejectedUnpersisted ==
    [][\A r \in Requests :
        (IsPost(r)' /\ IsRejectedInput(Body(r)')) =>
            /\ pc'[r] = "exit"
            /\ response'[r] = HTTPException(422, "validation error")
            /\ Receives(r) => store' = store]_vars

\* A request with a malformed email has been answered 422 while a record
\* created earlier is stored.
C6_Witness ==
    \E r \in Requests :
        /\ pc[r] = "exit" /\ IsPost(r)
        /\ Body(r).email = Some(E_noAt)
        /\ response[r].status = 422
        /\ store # {}

---------------------------------------------------------------------------
(* C7 *)

\* C7: every stored record has a non-empty name, last_name and
\* employee_number.
C7_NoEmptyRequiredField ==
    \A e \in store :
        /\ e.name # Some("")
        /\ e.last_name # Some("")
        /\ e.employee_number # Some("")

---------------------------------------------------------------------------
(* C8 *)

\* C8: a lookup is answered 404 "Employee not found" exactly when no stored
\* record has the key as its alias; otherwise it returns a stored record whose
\* alias is the key.
C8_NotFoundIffNoMatch ==
    [][\A r \in Requests :
        (Handles(r) /\ IsGet(r)) =>
            IF \A e \in store : e.alias # request[r].alias
            THEN response'[r] = HTTPException(404, "Employee not found")
            ELSE /\ response'[r].status = 200
                 /\ response'[r].employee[1] \in store
                 /\ response'[r].employee[1].alias = request[r].alias]_vars

\* With records stored, some with an alias and some without, one lookup has
\* been answered 404 and another has returned a record.
C8_Witness ==
    \E r1, r2 \in Requests :
        /\ pc[r1] = "exit" /\ IsGet(r1) /\ response[r1].status = 404
        /\ pc[r2] = "exit" /\ IsGet(r2) /\ response[r2].status = 200
        /\ \E e \in store : e.alias = None

---------------------------------------------------------------------------
(* C9 *)

\* C9: a thread's session is open exactly while its request is in flight, so
\* no session is open once its request has ended and the open sessions never
\* outnumber the requests in flight.
C9_SessionScopedToRequest ==
    /\ \A r \in Requests : (session[r] = "open") <=> (pc[r] # "idle")
    /\ Cardinality({r \in Requests : session[r] = "open"})
         <= Cardinality({r \in Requests : pc[r] # "idle"})

\* One request has ended with a 400 (the rollback path) and another with a
\* 404, and both sessions are closed.
C9_Witness ==
    \E r1, r2 \in Requests :
        /\ pc[r1] = "idle" /\ sent[r1] = 400 /\ session[r1] = "closed"
        /\ pc[r2] = "idle" /\ sent[r2] = 404 /\ session[r2] = "closed"

---------------------------------------------------------------------------
(* C10 *)

\* C10: every step keeps every stored record as it is; a lookup leaves the
\* record set unchanged; the set changes only by one record, the one a
\* successful creation returns.
C10_RecordsOnlyAdded ==
    [][/\ store \subseteq store'
       /\ \A r \in Requests : (Handles(r) /\ IsGet(r)) => store' = store
       /\ store' # store =>
            \E r \in Requests :
                /\ Handles(r) /\ IsPost(r)
                /\ response'[r].status = 200
                /\ store' \ store = {response'[r].employee[1]}]_vars

\* A second record with the alias of the first has just been created, and
\* both are stored.
C10_Witness ==
    \E r \in Requests :
        /\ pc[r] = "exit" /\ IsPost(r) /\ response[r].status = 200
        /\ Cardinality(store) = 2
        /\ \A e \in store : e.alias = Some("al")

====
